---- MODULE Spec2Model ----
\* A model of the Trellis driver of src/adafruit_trellis.py: the LED buffers and
\* the indexable LED view, the double-buffered button snapshots and their edge
\* detection, the blink/brightness/auto_show configuration, and the I2C
\* transactions every call performs.
EXTENDS Integers, Sequences, FiniteSets, TLC

\* ---------------------------------------------------------------- bounds
\* The longest address list handed to the constructor.
MaxBoards == 2
\* The number of LED/configuration calls made on one controller.
MaxCalls == 2
\* The number of read_buttons() polls made on one controller.
MaxPolls == 2

\* ------------------------------------------------------- program constants
HT16K33_OSCILATOR_ON == \H21
HT16K33_BLINK_CMD == \H80
HT16K33_BLINK_DISPLAYON == \H01
HT16K33_CMD_BRIGHTNESS == \HE0
HT16K33_KEY_READ_CMD == \H40
\* The address list used when the constructor is given none: [0x70].
DefaultAddresses == << \H70 >>

\* LED lookup table: entry >> 4 is the row, entry & 0x0f the bit of the row.
ledLUT ==
    << \H3A, \H37, \H35, \H34,
       \H28, \H29, \H23, \H24,
       \H16, \H1B, \H11, \H10,
       \H0E, \H0D, \H0C, \H02 >>

\* Button lookup table: entry >> 4 is the scan byte, entry & 0x0f its bit.
buttonLUT ==
    << \H07, \H04, \H02, \H22,
       \H05, \H06, \H00, \H01,
       \H03, \H10, \H30, \H21,
       \H13, \H12, \H11, \H31 >>

\* ------------------------------------------------- Python integer operators
RECURSIVE BitAnd(_, _)
\* a & b for a >= 0, b >= 0
BitAnd(a, b) ==
    IF a = 0 \/ b = 0 THEN 0
    ELSE (a % 2) * (b % 2) + 2 * BitAnd(a \div 2, b \div 2)

\* a | b for a >= 0, b >= 0
BitOr(a, b) == a + b - BitAnd(a, b)

\* ~x on Python's unbounded two's-complement integers
Inv(x) == 0 - x - 1

\* a & b where either operand may be negative
And(a, b) ==
    IF a >= 0 /\ b >= 0 THEN BitAnd(a, b)
    ELSE IF a >= 0 THEN a - BitAnd(a, Inv(b))
    ELSE IF b >= 0 THEN b - BitAnd(b, Inv(a))
    ELSE Inv(BitOr(Inv(a), Inv(b)))

\* a << n and a >> n (>> floors, also for a negative a)
Shl(a, n) == a * (2 ^ n)
Shr(a, n) == a \div (2 ^ n)

\* bytearray(n): n zero bytes, indexed from 0
ByteArray(n) == [i \in 0 .. n - 1 |-> 0]

\* bytes(b) as the sequence a bus transaction carries
Bytes(b, n) == [i \in 1 .. n |-> b[i - 1]]

\* ------------------------------------------------------------------ state
VARIABLES
    pc,               \* "new" before the constructor, then "ready" or "failed"
    i2c_devices,      \* self._i2c_devices: the boards' addresses, in order
    led_buffer,       \* self._led_buffer: per board, 16 bytes
    buttons,          \* self._buttons: per board, [0] previous and [1] current
    num_leds,         \* self._num_leds (and the LED view's _parent_num_leds)
    blink_rate,       \* self._blink_rate
    brightness,       \* self._brightness
    auto_show,        \* self._auto_show
    parent_auto_show, \* self.led._parent_auto_show
    bus,              \* the bus transactions the last call attempted, in order
    last,             \* the last call: its arguments, its error, what it returned
    calls             \* the number of calls made on the controller

vars ==
    << pc, i2c_devices, led_buffer, buttons, num_leds, blink_rate,
       brightness, auto_show, parent_auto_show, bus, last, calls >>

\* The two ways an out-of-range value is stored into a bytearray element:
\* CircuitPython/MicroPython firmware keeps the low 8 bits, CPython (the
\* driver run on a Linux host) raises ValueError. The source does not say
\* which Python runs it, so every store is given either.
Hosts == {"circuitpython", "cpython"}

\* What a call leaves in `last`.
Call(op, x, v, err) ==
    [op |-> op, x |-> x, v |-> v, err |-> err, ret |-> FALSE,
     pressed |-> <<>>, released |-> <<>>, quiet |-> 0]

\* ------------------------------------------------------------ bus transport
\* One transaction of a plan: `with device: device.write(data)`.
Write(dev, data) == [dev |-> dev, kind |-> "write", data |-> data]

\* `with device: device.readinto(buf)`, the device answering `data`.
ReadInto(dev, data) == [dev |-> dev, kind |-> "readinto", data |-> data]

\* Every transaction of a plan is attempted although transaction f failed.
Attempts_goes_on(plan, f) ==
    [k \in 1 .. Len(plan) |->
        [dev |-> plan[k].dev, kind |-> plan[k].kind, data |-> plan[k].data,
         ok |-> k # f]]

\* The transactions of `plan` that are attempted when transaction f raises
\* (f = 0: none does): the exception leaves the loop, so the plan stops at f.
Attempts(plan, f) ==
    [k \in 1 .. (IF f = 0 THEN Len(plan) ELSE f) |->
        [dev |-> plan[k].dev, kind |-> plan[k].kind, data |-> plan[k].data,
         ok |-> k # f]]

\* _write_cmd(byte): the one-byte command, to every board in order.
write_cmd(devs, byte) == [k \in 1 .. Len(devs) |-> Write(devs[k], <<byte>>)]

\* temp[1:] = src that forgets to replace: the frame stays as allocated.
SliceAssign_kept(temp, src) == temp

\* temp[1:] = src on a bytearray: temp[0] stays, the rest becomes src.
SliceAssign(temp, src) == SubSeq(temp, 1, 1) \o src

RECURSIVE show_loop(_, _, _, _)
\* The loop of show(): board pos onwards, temp being temp_led_buffer.
show_loop(devs, bufs, temp, pos) ==
    IF pos >= Len(devs) THEN <<>>
    ELSE LET t2 == SliceAssign(temp, Bytes(bufs[pos], 16))
         IN  <<Write(devs[pos + 1], t2)>> \o show_loop(devs, bufs, t2, pos + 1)

\* show(): one frame per board.
show(devs, bufs, n_leds) ==
    show_loop(devs, bufs, [i \in 1 .. n_leds + 1 |-> 0], 0)

\* -------------------------------------------------------------- LED buffers
\* Storing v into a bytearray element on host h.
Store(h, v) ==
    [ok |-> (v \in 0 .. 255) \/ h # "cpython", val |-> v % 256]

\* A list of n items indexed by b: Python accepts -n .. n-1.
ListIndexOK(b, n) == (0 - n) <= b /\ b < n

\* The position list index b names.
ListIndex(b, n) == IF b < 0 THEN b + n ELSE b

\* The board of LED x with the index wrapped round the boards.
led_board_wrapped(x, n) == IF n = 0 THEN 0 ELSE (x \div 16) % n

\* The board of LED x: x // 16.
led_board(x, n) == x \div 16

led_row(x) == Shr(ledLUT[(x % 16) + 1], 4)
led_mask(x) == Shl(1, And(ledLUT[(x % 16) + 1], \H0F))

\* The bounds check of __getitem__ and __setitem__: 0 < x > num_leds.
led_check(x, n_leds) == 0 < x /\ x > n_leds

\* led.__getitem__(x): [err, ret]
led_getitem(bufs, n_leds, x) ==
    LET n == n_leds \div 16
        b == led_board(x, n)
        led == led_row(x)
        mask == led_mask(x)
    IN  IF led_check(x, n_leds) THEN [err |-> "ValueError", ret |-> FALSE]
        ELSE IF ~ListIndexOK(b, n) THEN [err |-> "IndexError", ret |-> FALSE]
        ELSE LET buf == bufs[ListIndex(b, n)]
             IN  [err |-> "none",
                  ret |-> And(BitOr(buf[led * 2], Shl(buf[led * 2 + 1], 8)),
                              mask) > 0]

\* led.__setitem__(x, value) up to the auto-show: [err, bufs]
led_setitem(h, bufs, n_leds, x, value) ==
    LET n == n_leds \div 16
        b == led_board(x, n)
        led == led_row(x)
        mask == led_mask(x)
    IN  IF led_check(x, n_leds) THEN [err |-> "ValueError", bufs |-> bufs]
        ELSE IF ~ListIndexOK(b, n) THEN [err |-> "IndexError", bufs |-> bufs]
        ELSE LET bb == ListIndex(b, n)
                 buf == bufs[bb]
                 lo == Store(h, IF value THEN BitOr(buf[led * 2], mask)
                                ELSE And(buf[led * 2], Inv(mask)))
                 buf1 == [buf EXCEPT ![led * 2] = lo.val]
                 hi == Store(h, IF value
                                THEN BitOr(buf1[led * 2 + 1], Shr(mask, 8))
                                ELSE And(buf1[led * 2 + 1], Shr(Inv(mask), 8)))
                 buf2 == [buf1 EXCEPT ![led * 2 + 1] = hi.val]
             IN  IF ~lo.ok THEN [err |-> "ValueError", bufs |-> bufs]
                 ELSE IF ~hi.ok
                 THEN [err |-> "ValueError", bufs |-> [bufs EXCEPT ![bb] = buf1]]
                 ELSE [err |-> "none", bufs |-> [bufs EXCEPT ![bb] = buf2]]

\* fill() whose outer loop stops after the first board.
fill_buffers_first(bufs, color) ==
    [b \in DOMAIN bufs |->
        IF b > 0 THEN bufs[b]
        ELSE [i \in 0 .. 15 |-> IF color # 0 THEN \HFF ELSE \H00]]

\* The buffers after the two loops of fill(color).
fill_buffers(bufs, color) ==
    [b \in DOMAIN bufs |-> [i \in 0 .. 15 |-> IF color # 0 THEN \HFF ELSE \H00]]

\* ------------------------------------------------------------- construction
Init ==
    /\ pc = "new"
    /\ i2c_devices = <<>>
    /\ led_buffer = <<>>
    /\ buttons = <<>>
    /\ num_leds = 0
    /\ blink_rate = "None"
    /\ brightness = "None"
    /\ auto_show = TRUE
    /\ parent_auto_show = TRUE
    /\ bus = <<>>
    /\ last = Call("none", 0, FALSE, "none")
    /\ calls = 0

\* The address lists handed to the constructor: the boards sit at 0x70, 0x71, ...
AddressLists == {[k \in 1 .. n |-> \H70 + k - 1] : n \in 0 .. MaxBoards}

\* A constructor that refuses an empty address list.
init_check_nonempty(addresses) == Len(addresses) = 0

\* What __init__ checks of its address list before it builds anything: nothing.
init_check(addresses) == FALSE

\* Trellis(i2c, addresses), bus transaction f failing (f = 0: none).
Construct(addresses, f) ==
    LET n == Len(addresses)
        bufs0 == [b \in 0 .. n - 1 |-> ByteArray(16)]
        btns0 == [b \in 0 .. n - 1 |-> [g \in 0 .. 1 |-> ByteArray(6)]]
        bufs == fill_buffers(bufs0, 0)
        rate == And(0, \H03)
        level == And(15, \H0F)
        plan == show(addresses, bufs, n * 16)
                \o write_cmd(addresses, HT16K33_OSCILATOR_ON)
                \o write_cmd(addresses,
                             BitOr(BitOr(HT16K33_BLINK_CMD, HT16K33_BLINK_DISPLAYON),
                                   Shl(rate, 1)))
                \o write_cmd(addresses, BitOr(HT16K33_CMD_BRIGHTNESS, level))
    IN  /\ pc = "new"
        /\ IF init_check(addresses)
           THEN /\ f = 0
                /\ pc' = "failed"
                /\ bus' = <<>>
                /\ last' = Call("new", n, FALSE, "ValueError")
                /\ UNCHANGED << i2c_devices, led_buffer, buttons, num_leds,
                                blink_rate, brightness, auto_show,
                                parent_auto_show >>
           ELSE /\ f \in 0 .. Len(plan)
                /\ bus' = Attempts(plan, f)
                /\ IF f = 0
                   THEN /\ pc' = "ready"
                        /\ i2c_devices' = addresses
                        /\ led_buffer' = bufs
                        /\ buttons' = btns0
                        /\ num_leds' = n * 16
                        /\ blink_rate' = rate
                        /\ brightness' = level
                        /\ auto_show' = TRUE
                        /\ parent_auto_show' = auto_show'
                        /\ last' = Call("new", n, FALSE, "none")
                   ELSE /\ pc' = "failed"
                        /\ last' = Call("new", n, FALSE, "BusError")
                        /\ UNCHANGED << i2c_devices, led_buffer, buttons,
                                        num_leds, blink_rate, brightness,
                                        auto_show, parent_auto_show >>
        /\ UNCHANGED calls

\* Trellis(i2c, addresses)
New == \E addresses \in AddressLists : \E f \in 0 .. 4 * MaxBoards :
    Construct(addresses, f)

\* Trellis(i2c): addresses is None
NewDefault == \E f \in 0 .. 4 : Construct(DefaultAddresses, f)

\* ---------------------------------------------------------------- LED calls
\* The indices handed to the LED view: every LED of the first board, the
\* first and the last LED of every further board, one past the end, beyond.
LedInputs ==
    {x \in 0 .. num_leds - 1 : x < 16 \/ x % 16 = 0 \/ x % 16 = 15}
        \cup {num_leds, num_leds + 1, num_leds + 16}

\* The error of a call: its own, else the bus's.
Outcome(err, f) == IF err # "none" THEN err ELSE IF f # 0 THEN "BusError" ELSE "none"

\* trellis.led[x] = value on host h, bus transaction f failing
SetItem(x, value, h, f) ==
    LET r == led_setitem(h, led_buffer, num_leds, x, value)
        plan == IF r.err = "none" /\ parent_auto_show
                THEN show(i2c_devices, r.bufs, num_leds) ELSE <<>>
    IN  /\ pc = "ready" /\ calls < MaxCalls
        /\ f \in 0 .. Len(plan)
        /\ led_buffer' = r.bufs
        /\ bus' = Attempts(plan, f)
        /\ last' = Call("setitem", x, value, Outcome(r.err, f))
        /\ calls' = calls + 1
        /\ UNCHANGED << pc, i2c_devices, buttons, num_leds, blink_rate,
                        brightness, auto_show, parent_auto_show >>

\* trellis.led[x]
GetItem(x) ==
    LET r == led_getitem(led_buffer, num_leds, x)
    IN  /\ pc = "ready" /\ calls < MaxCalls
        /\ bus' = <<>>
        /\ last' = [Call("getitem", x, FALSE, r.err) EXCEPT !.ret = r.ret]
        /\ calls' = calls + 1
        /\ UNCHANGED << pc, i2c_devices, led_buffer, buttons, num_leds,
                        blink_rate, brightness, auto_show, parent_auto_show >>

\* trellis.fill(color), bus transaction f failing
Fill(color, f) ==
    LET bufs == fill_buffers(led_buffer, color)
        plan == IF auto_show THEN show(i2c_devices, bufs, num_leds) ELSE <<>>
    IN  /\ pc = "ready" /\ calls < MaxCalls
        /\ f \in 0 .. Len(plan)
        /\ led_buffer' = bufs
        /\ bus' = Attempts(plan, f)
        /\ last' = Call("fill", color, color # 0, Outcome("none", f))
        /\ calls' = calls + 1
        /\ UNCHANGED << pc, i2c_devices, buttons, num_leds, blink_rate,
                        brightness, auto_show, parent_auto_show >>

\* trellis.show(), bus transaction f failing
Show(f) ==
    LET plan == show(i2c_devices, led_buffer, num_leds)
    IN  /\ pc = "ready" /\ calls < MaxCalls
        /\ f \in 0 .. Len(plan)
        /\ bus' = Attempts(plan, f)
        /\ last' = Call("show", 0, FALSE, Outcome("none", f))
        /\ calls' = calls + 1
        /\ UNCHANGED << pc, i2c_devices, led_buffer, buttons, num_leds,
                        blink_rate, brightness, auto_show, parent_auto_show >>

\* trellis.auto_show = value, value being True or False
SetAutoShow(value) ==
    /\ pc = "ready" /\ calls < MaxCalls
    /\ auto_show' = value
    /\ bus' = <<>>
    /\ last' = Call("auto_show", 0, value, "none")
    /\ calls' = calls + 1
    /\ UNCHANGED << pc, i2c_devices, led_buffer, buttons, num_leds,
                    blink_rate, brightness, parent_auto_show >>

\* trellis.auto_show = value, value being neither
SetAutoShowInvalid ==
    /\ pc = "ready" /\ calls < MaxCalls
    /\ bus' = <<>>
    /\ last' = Call("auto_show", 2, FALSE, "ValueError")
    /\ calls' = calls + 1
    /\ UNCHANGED << pc, i2c_devices, led_buffer, buttons, num_leds,
                    blink_rate, brightness, auto_show, parent_auto_show >>

\* ------------------------------------------------------ blink and brightness
\* The rates and levels handed to the setters: in range, above, below.
RateInputs == (0 - 2) .. 5
LevelInputs == (0 - 2) .. 17

\* The check of the blink_rate setter: 0 < rate > 3.
blink_check(rate) == 0 < rate /\ rate > 3

\* The check of the brightness setter: 0 < brightness > 15.
brightness_check(level) == 0 < level /\ level > 15

\* trellis.blink_rate = rate, bus transaction f failing
SetBlinkRate(rate, f) ==
    LET r == And(rate, \H03)
        plan == IF blink_check(rate) THEN <<>>
                ELSE write_cmd(i2c_devices,
                               BitOr(BitOr(HT16K33_BLINK_CMD, HT16K33_BLINK_DISPLAYON),
                                     Shl(r, 1)))
    IN  /\ pc = "ready" /\ calls < MaxCalls
        /\ f \in 0 .. Len(plan)
        /\ blink_rate' = IF blink_check(rate) THEN blink_rate ELSE r
        /\ bus' = Attempts(plan, f)
        /\ last' = Call("blink_rate", rate, FALSE,
                        Outcome(IF blink_check(rate) THEN "ValueError" ELSE "none", f))
        /\ calls' = calls + 1
        /\ UNCHANGED << pc, i2c_devices, led_buffer, buttons, num_leds,
                        brightness, auto_show, parent_auto_show >>

\* trellis.brightness = level, bus transaction f failing
SetBrightness(level, f) ==
    LET r == And(level, \H0F)
        plan == IF brightness_check(level) THEN <<>>
                ELSE write_cmd(i2c_devices, BitOr(HT16K33_CMD_BRIGHTNESS, r))
    IN  /\ pc = "ready" /\ calls < MaxCalls
        /\ f \in 0 .. Len(plan)
        /\ brightness' = IF brightness_check(level) THEN brightness ELSE r
        /\ bus' = Attempts(plan, f)
        /\ last' = Call("brightness", level, FALSE,
                        Outcome(IF brightness_check(level) THEN "ValueError" ELSE "none", f))
        /\ calls' = calls + 1
        /\ UNCHANGED << pc, i2c_devices, led_buffer, buttons, num_leds,
                        blink_rate, auto_show, parent_auto_show >>

\* ------------------------------------------------------------------ buttons
\* A first loop of read_buttons() that copies nothing.
copy_snapshots_skipped(btns) == btns

\* The first loop of read_buttons(): buttons[i][0][:] = buttons[i][1][:]
copy_snapshots(btns) ==
    [b \in DOMAIN btns |-> [btns[b] EXCEPT ![0] = btns[b][1]]]

button_byte(button) == Shr(buttonLUT[(button % 16) + 1], 4)
button_mask(button) == Shl(1, And(buttonLUT[(button % 16) + 1], \H0F))

\* _is_pressed(button) and _was_pressed(button), for button < num_leds
is_pressed(btns, button) ==
    And(btns[button \div 16][1][button_byte(button)], button_mask(button))
was_pressed(btns, button) ==
    And(btns[button \div 16][0][button_byte(button)], button_mask(button))

\* _just_released(button) without the complement: pressed now and before.
just_released_steady(btns, button) ==
    And(is_pressed(btns, button), was_pressed(btns, button))

\* _just_pressed(button) and _just_released(button): an int, true when not 0
just_pressed(btns, button) ==
    And(is_pressed(btns, button), Inv(was_pressed(btns, button)))
just_released(btns, button) ==
    And(Inv(is_pressed(btns, button)), was_pressed(btns, button))

\* range(n): 0, 1, ..., n - 1
Range(n) == [k \in 1 .. n |-> k - 1]

\* The last loop of read_buttons(): button i of range(num_leds) is appended
\* to pressed if _just_pressed(i), else to released if _just_released(i).
classify(btns, n_leds) ==
    [pressed |-> SelectSeq(Range(n_leds), LAMBDA i : just_pressed(btns, i) # 0),
     released |-> SelectSeq(Range(n_leds),
                            LAMBDA i : /\ ~(just_pressed(btns, i) # 0)
                                       /\ just_released(btns, i) # 0)]

\* The snapshots after the read loop, its first `done` boards having answered.
read_snapshots(btns, scan, done) ==
    [b \in DOMAIN btns |->
        IF b < done THEN [btns[b] EXCEPT ![1] = scan[b]] ELSE btns[b]]

\* The byte and the bit of key k of a board in its scan.
KeyBit(k) == <<Shr(buttonLUT[k + 1], 4), And(buttonLUT[k + 1], \H0F)>>

\* The scan bits set one at a time: on the first board every key and two
\* bits no key uses, on every further board its first and its last key.
ScanBits(n) ==
    {<<0, KeyBit(k)>> : k \in {j \in 0 .. 15 : n > 0}}
        \cup {<<0, k>> : k \in {j \in {<<2, 0>>, <<5, 7>>} : n > 0}}
        \cup {<<b, KeyBit(k)>> : b \in 1 .. n - 1, k \in {0, 15}}

\* No key down, and every scan bit set.
ScanBlank(n) == [b \in 0 .. n - 1 |-> ByteArray(6)]
ScanFull(n) == [b \in 0 .. n - 1 |-> [i \in 0 .. 5 |-> \HFF]]

\* The scans the boards answer with: no key down, one bit of ScanBits set,
\* every bit set.
ScanInputs(n) ==
    {ScanBlank(n), ScanFull(n)}
        \cup {[ScanBlank(n) EXCEPT ![p[1]][p[2][1]] = Shl(1, p[2][2])] :
                  p \in ScanBits(n)}

\* trellis.read_buttons(), the boards answering scan, bus transaction f failing
ReadButtons(scan, f) ==
    LET n == Len(i2c_devices)
        copied == copy_snapshots(buttons)
        plan == write_cmd(i2c_devices, HT16K33_KEY_READ_CMD)
                \o [k \in 1 .. n |-> ReadInto(i2c_devices[k], Bytes(scan[k - 1], 6))]
        done == IF f = 0 THEN n ELSE IF f > n THEN f - n - 1 ELSE 0
        btns == read_snapshots(copied, scan, done)
        events == classify(btns, num_leds)
        same == \A b \in 0 .. n - 1 : scan[b] = buttons[b][1]
    IN  /\ pc = "ready" /\ calls < MaxPolls
        /\ f \in 0 .. Len(plan)
        /\ buttons' = btns
        /\ bus' = Attempts(plan, f)
        /\ last' = IF f # 0 THEN Call("read_buttons", 0, FALSE, "BusError")
                   ELSE [Call("read_buttons", 0, FALSE, "none") EXCEPT
                            !.pressed = events.pressed,
                            !.released = events.released,
                            !.quiet = IF ~same THEN 0
                                      ELSE IF last.op = "read_buttons"
                                      THEN last.quiet + 1 ELSE 1]
        /\ calls' = calls + 1
        /\ UNCHANGED << pc, i2c_devices, led_buffer, num_leds, blink_rate,
                        brightness, auto_show, parent_auto_show >>

\* ----------------------------------------------------------- specifications
LedCalls ==
    \/ \E x \in LedInputs : \E value \in BOOLEAN : \E h \in Hosts :
           SetItem(x, value, h, 0)
    \/ \E x \in LedInputs : GetItem(x)
    \/ \E color \in 0 .. 1 : Fill(color, 0)
    \/ Show(0)
    \/ \E value \in BOOLEAN : SetAutoShow(value)
    \/ SetAutoShowInvalid

ConfigCalls ==
    \/ \E rate \in RateInputs : \E f \in 0 .. MaxBoards : SetBlinkRate(rate, f)
    \/ \E level \in LevelInputs : \E f \in 0 .. MaxBoards : SetBrightness(level, f)

\* A poll every transaction of which succeeds.
Poll == \E scan \in ScanInputs(Len(i2c_devices)) : ReadButtons(scan, 0)

\* The calls that transmit to every board, any transaction of which may fail.
BusCalls ==
    \/ \E x \in {0, num_leds - 1} : \E value \in BOOLEAN : \E h \in Hosts :
           \E f \in 0 .. MaxBoards : SetItem(x, value, h, f)
    \/ \E color \in 0 .. 1 : \E f \in 0 .. MaxBoards : Fill(color, f)
    \/ \E f \in 0 .. MaxBoards : Show(f)
    \/ \E scan \in {ScanBlank(Len(i2c_devices)), ScanFull(Len(i2c_devices))} :
           \E f \in 0 .. 2 * MaxBoards : ReadButtons(scan, f)

\* Every call of the driver.
Next == New \/ NewDefault \/ LedCalls \/ ConfigCalls \/ Poll \/ BusCalls
Spec == Init /\ [][Next]_vars

\* The LED view, fill, show and auto_show, on a bus that answers.
NextLed == New \/ NewDefault \/ LedCalls
SpecLed == Init /\ [][NextLed]_vars

\* The blink rate and the brightness.
NextConfig == New \/ NewDefault \/ ConfigCalls
SpecConfig == Init /\ [][NextConfig]_vars

\* The button polls, on a bus that answers.
NextButtons == New \/ NewDefault \/ Poll
SpecButtons == Init /\ [][NextButtons]_vars

\* The calls that transmit to every board, on a bus that may fail.
NextBus == New \/ NewDefault \/ BusCalls
SpecBus == Init /\ [][NextBus]_vars

TypeOK ==
    /\ pc \in {"new", "ready", "failed"}
    /\ calls \in 0 .. MaxPolls
    /\ pc = "ready" =>
        /\ num_leds = 16 * Len(i2c_devices)
        /\ DOMAIN led_buffer = 0 .. Len(i2c_devices) - 1
        /\ \A b \in DOMAIN led_buffer : \A i \in 0 .. 15 : led_buffer[b][i] \in 0 .. 255
        /\ \A b \in DOMAIN buttons : \A g \in 0 .. 1 : \A i \in 0 .. 5 :
               buttons[b][g][i] \in 0 .. 255
        /\ blink_rate \in 0 .. 3
        /\ brightness \in 0 .. 15

\* ------------------------------------------------------------------ claims
\* What the claims read off a state, written without the driver's operators.
Boards == Len(i2c_devices)
Leds == 0 .. num_leds - 1
Has(seq, i) == \E k \in 1 .. Len(seq) : seq[k] = i
Ascending(seq) == \A k \in 1 .. Len(seq) - 1 : seq[k] < seq[k + 1]
\* Bit `bit` of byte v.
BitSet(v, bit) == (v \div (2 ^ bit)) % 2 = 1
\* LED i as the table places it in its board's buffer bufs[i / 16].
LedLit(bufs, i) ==
    LET row == ledLUT[(i % 16) + 1] \div 16
        bit == ledLUT[(i % 16) + 1] % 16
    IN  BitSet(bufs[i \div 16][2 * row] + 256 * bufs[i \div 16][2 * row + 1], bit)
\* Key i as the table places it in its board's snapshot g of btns[i / 16].
KeyDown(btns, g, i) ==
    BitSet(btns[i \div 16][g][buttonLUT[(i % 16) + 1] \div 16],
           buttonLUT[(i % 16) + 1] % 16)
\* The display frame of board k (1 .. Boards): 0x00 and its 16 buffer bytes.
FrameOf(bufs, k) == [i \in 1 .. 17 |-> IF i = 1 THEN 0 ELSE bufs[k - 1][i - 2]]
\* The step is a call of the controller.
IsCall == calls' = calls + 1

\* C1: for every valid index x and value v, after led[x] = v the view reads v
\* at x and reads every other LED as before, every buffer byte staying 8 bits.
C1_SetThenGet ==
    [][(IsCall /\ last'.op = "setitem" /\ last'.x \in Leds) =>
        /\ \A j \in Leds :
               LedLit(led_buffer', j) =
                   IF j = last'.x THEN last'.v ELSE LedLit(led_buffer, j)
        /\ \A b \in DOMAIN led_buffer' : \A i \in 0 .. 15 :
               led_buffer'[b][i] \in 0 .. 255]_vars

\* C2: with auto_show false a led[x] = v transmits no frame, and a show()
\* transmits exactly one frame to every board.
C2_NoFrameUntilShow ==
    [][IsCall =>
        /\ (last'.op = "setitem" /\ ~auto_show) => bus' = <<>>
        /\ (last'.op = "show" /\ last'.err = "none") =>
               /\ Len(bus') = Boards
               /\ \A k \in 1 .. Boards : bus'[k].dev = i2c_devices[k]]_vars

\* C3: read_buttons() returns in pressed exactly the keys whose bit is set in
\* the new scan and was clear in the snapshot before the call, in released
\* exactly those whose bit is clear and was set, each list strictly ascending
\* (so an unchanged key is in neither and no key is in both).
C3_EdgesOnly ==
    [][(IsCall /\ last'.op = "read_buttons" /\ last'.err = "none") =>
        /\ \A i \in Leds :
               /\ Has(last'.pressed, i) <=>
                      (KeyDown(buttons', 1, i) /\ ~KeyDown(buttons, 1, i))
               /\ Has(last'.released, i) <=>
                      (~KeyDown(buttons', 1, i) /\ KeyDown(buttons, 1, i))
        /\ \A k \in 1 .. Len(last'.pressed) : last'.pressed[k] \in Leds
        /\ \A k \in 1 .. Len(last'.released) : last'.released[k] \in Leds
        /\ Ascending(last'.pressed)
        /\ Ascending(last'.released)]_vars

\* A poll that reported a press and a release at once, on two boards.
C3_Witness ==
    /\ last.op = "read_buttons"
    /\ Boards = 2
    /\ Len(last.pressed) >= 1
    /\ Len(last.released) >= 1

\* C4: a read_buttons() to which every board answers the scan already in its
\* current snapshot returns two empty lists, however many such polls follow
\* one another.
C4_QuietPollIsEmpty ==
    (last.op = "read_buttons" /\ last.err = "none" /\ last.quiet >= 1) =>
        (last.pressed = <<>> /\ last.released = <<>>)

\* Two polls in a row saw no change.
C4_Witness ==
    /\ last.op = "read_buttons"
    /\ Boards >= 1
    /\ last.quiet = 2
    /\ last.pressed = <<>>
    /\ last.released = <<>>

\* C5: the blink_rate setter raises unless 0 <= rate <= 3, the brightness
\* setter unless 0 <= level <= 15; a value in range is accepted, a refused
\* value leaves the stored one alone and writes to no board.
C5_RangeChecked ==
    [][IsCall =>
        /\ last'.op = "blink_rate" =>
               IF last'.x \in 0 .. 3 THEN last'.err # "ValueError"
               ELSE /\ last'.err = "ValueError"
                    /\ blink_rate' = blink_rate
                    /\ bus' = <<>>
        /\ last'.op = "brightness" =>
               IF last'.x \in 0 .. 15 THEN last'.err # "ValueError"
               ELSE /\ last'.err = "ValueError"
                    /\ brightness' = brightness
                    /\ bus' = <<>>]_vars

\* C6: led[x] and led[x] = v with x >= 16*N raise an index error (the
\* ValueError of the bounds check for x > 16*N, the IndexError of the buffer
\* lookup for x = 16*N), change no buffer byte and transmit nothing.
C6_PastTheEndFails ==
    [][(IsCall /\ last'.op \in {"getitem", "setitem"} /\ last'.x >= num_leds) =>
        /\ last'.err = IF last'.x > num_leds THEN "ValueError" ELSE "IndexError"
        /\ led_buffer' = led_buffer
        /\ bus' = <<>>]_vars

\* led[16*N] = True was refused on a controller with boards.
C6_Witness ==
    /\ last.op = "setitem"
    /\ Boards >= 1
    /\ last.x = num_leds
    /\ last.v
    /\ last.err = "IndexError"

\* C7: after fill(on) every byte of every buffer is 0xFF (0x00 for off), every
\* LED reads on (off), and the frames of a show() were sent exactly when
\* auto_show is set.
C7_FillSetsAll ==
    last.op = "fill" =>
        /\ \A b \in DOMAIN led_buffer : \A i \in 0 .. 15 :
               led_buffer[b][i] = IF last.v THEN 255 ELSE 0
        /\ \A x \in Leds : LedLit(led_buffer, x) = last.v
        /\ IF auto_show
           THEN /\ last.err = "none" => Len(bus) = Boards
                /\ Boards >= 1 => Len(bus) >= 1
                /\ \A k \in 1 .. Len(bus) :
                       /\ bus[k].dev = i2c_devices[k]
                       /\ bus[k].data = FrameOf(led_buffer, k)
           ELSE bus = <<>>

\* fill(True) lit two boards some LED of which had been switched, and showed.
C7_Witness ==
    /\ last.op = "fill"
    /\ last.v
    /\ calls = 2
    /\ Boards = 2
    /\ auto_show
    /\ Len(bus) = 2
    /\ \A x \in Leds : LedLit(led_buffer, x)

\* C8 as stated: an empty address list is refused, so no controller has zero
\* boards.
C8_EmptyListRefused ==
    /\ pc = "ready" => Boards >= 1
    /\ (last.op = "new" /\ last.x = 0) => pc = "failed"

\* C8 as the constructor behaves: an empty address list is accepted; the
\* controller it builds has no board and no LED and has transmitted nothing.
C8_EmptyListAccepted ==
    (last.op = "new" /\ last.x = 0) =>
        /\ pc = "ready"
        /\ last.err = "none"
        /\ i2c_devices = <<>>
        /\ num_leds = 0
        /\ bus = <<>>

\* A controller built from an empty address list.
C8_Witness ==
    /\ pc = "ready"
    /\ last.op = "new"
    /\ last.x = 0
    /\ Boards = 0

\* C9: a show() that no bus error interrupts writes once to every board, in
\* address order, the 17 bytes 0x00 and that board's own 16 buffer bytes;
\* show() changes no buffer.
C9_ShowFrames ==
    [][(IsCall /\ last'.op = "show") =>
        /\ led_buffer' = led_buffer
        /\ last'.err = "none" =>
               /\ Len(bus') = Boards
               /\ \A k \in 1 .. Boards :
                      /\ bus'[k].dev = i2c_devices[k]
                      /\ bus'[k].kind = "write"
                      /\ bus'[k].ok
                      /\ Len(bus'[k].data) = 17
                      /\ bus'[k].data = FrameOf(led_buffer, k)]_vars

\* show() sent two boards their frames, the two buffers differing.
C9_Witness ==
    /\ last.op = "show"
    /\ last.err = "none"
    /\ Boards = 2
    /\ Len(bus) = 2
    /\ led_buffer[0] # led_buffer[1]
    /\ bus[1].data # bus[2].data

\* C10: when transaction m of a show() (also the one inside fill and
\* led[x] = v) or of a read_buttons() fails, the call stops there: the
\* transactions before it completed, none follows and it is not repeated;
\* the frames sent are the boards' buffers, the snapshots of the boards read
\* before it hold what was read, the others what they held; the controller
\* stays ready.
C10_BusErrorStopsTheLoop ==
    (last.err = "BusError" /\ last.op # "new") =>
        LET m == Len(bus)
        IN  /\ pc = "ready"
            /\ m >= 1
            /\ ~bus[m].ok
            /\ \A k \in 1 .. m - 1 : bus[k].ok
            /\ last.op \in {"show", "fill", "setitem"} =>
                   /\ m <= Boards
                   /\ \A k \in 1 .. m :
                          /\ bus[k].dev = i2c_devices[k]
                          /\ bus[k].data = FrameOf(led_buffer, k)
            /\ last.op = "read_buttons" =>
                   /\ m <= 2 * Boards
                   /\ \A k \in 1 .. m :
                          IF k <= Boards
                          THEN /\ bus[k].kind = "write"
                               /\ bus[k].dev = i2c_devices[k]
                               /\ bus[k].data = << \H40 >>
                          ELSE /\ bus[k].kind = "readinto"
                               /\ bus[k].dev = i2c_devices[k - Boards]
                   /\ \A b \in 0 .. Boards - 1 : \A i \in 0 .. 5 :
                          buttons[b][1][i] =
                              IF Boards + b + 1 < m
                              THEN bus[Boards + b + 1].data[i + 1]
                              ELSE buttons[b][0][i]

\* The read of the second board failed after the first board had answered
\* with keys down.
C10_Witness ==
    /\ last.op = "read_buttons"
    /\ last.err = "BusError"
    /\ Boards = 2
    /\ Len(bus) = 4
    /\ buttons[0][1] # buttons[0][0]
    /\ buttons[1][1] = buttons[1][0]

====
